---- MODULE Spec2Model ----
(***************************************************************************)
(* A model of fileagent.py: the incremental mirror of a remote (Drive)     *)
(* tree into a local directory tree.                                       *)
(*                                                                         *)
(*   Spec        sync runs: main / process_subdirectory / download_file    *)
(*               tasks on a ThreadPoolExecutor, over a local disk that     *)
(*               survives from one run of the process to the next.         *)
(*   SpecDetect  one call of file_already_exists under its tenacity        *)
(*               @retry decorator, over all inputs of a bounded domain.    *)
(*   SpecList    one call of list_files_in_folder under @retry, page by    *)
(*               page.                                                     *)
(*   SpecWalk    main's loop over the shared folders on an empty disk,     *)
(*               with folders whose listing fails.                         *)
(*   SpecFetch   one call of download_file under @retry, step by step.     *)
(*   SpecName    sanitize_filename over names around the length cap.       *)
(***************************************************************************)
EXTENDS Integers, Sequences, FiniteSets, TLC

\* ------------------------------------------------------------------ bounds
MaxId == 2          \* file ids of SpecDetect are 1..MaxId
MaxSize == 2        \* remote sizes are 0..MaxSize
MaxTime == 2        \* remote modifiedTime stamps are 1..MaxTime

\* ------------------------------------------------- tenacity @retry settings
StopAfterAttempt == 5
WaitMultiplier == 1
WaitMin == 4
WaitMax == 10

Max(a, b) == IF a >= b THEN a ELSE b
Min(a, b) == IF a <= b THEN a ELSE b

RECURSIVE Pow2(_)
Pow2(n) == IF n = 0 THEN 1 ELSE 2 * Pow2(n - 1)

\* An exponential wait with a ceiling and no floor.
wait_exponential_no_floor(attempt_number) ==
    Min(WaitMultiplier * Pow2(attempt_number - 1), WaitMax)

\* wait_exponential(multiplier, min, max): the sleep after failed attempt n.
wait_exponential(attempt_number) ==
    Max(Max(0, WaitMin), Min(WaitMultiplier * Pow2(attempt_number - 1), WaitMax))

\* Python's exception classes that matter here, and issubclass among them.
ExcParents ==
    [ SSLError |-> {"SSLError", "OSError", "Exception"},
      ConnectionResetError |-> {"ConnectionResetError", "OSError", "Exception"},
      OSError |-> {"OSError", "Exception"},
      HttpError |-> {"HttpError", "Exception"},
      AttributeError |-> {"AttributeError", "Exception"},
      UnicodeDecodeError |-> {"UnicodeDecodeError", "ValueError", "Exception"},
      RetryError |-> {"RetryError", "Exception"} ]

isinstance(exc, classes) == ExcParents[exc] \cap classes # {}

\* retry_if_exception_type((ConnectionResetError, OSError, ssl.SSLError, HttpError))
RetryTypes == {"ConnectionResetError", "OSError", "SSLError", "HttpError"}

\* The outcome of one execution of a decorated function's body.
Returned(v) == [raised |-> FALSE, value |-> v, exc |-> "none"]
Raised(e) == [raised |-> TRUE, value |-> FALSE, exc |-> e]

\* What tenacity does with the outcome of attempt number attempt_number:
\* hand the value back, let a non-retried exception through, sleep and call
\* again, or give up with RetryError once stop_after_attempt is reached.
retry_decision(outcome, attempt_number) ==
    IF ~outcome.raised THEN "return"
    ELSE IF ~isinstance(outcome.exc, RetryTypes) THEN "reraise"
    ELSE IF attempt_number >= StopAfterAttempt THEN "RetryError"
    ELSE "sleep"

\* ------------------------------------------------------- sidecar (.meta) files
\* What a <destination_path>.meta file can hold: the record download_file
\* dumps, or content that json.load / metadata.get treat differently.
\*   badjson      no JSON document (json.JSONDecodeError), e.g. empty or cut off
\*   undecodable  bytes that are no text in the locale's encoding
\*   nonobject    a JSON document that is no object, e.g. [] or null
\*   emptyobj     the JSON object {} (every .get gives None)
MetaRecord(i, s, m) ==
    [kind |-> "record", file_id |-> i, size |-> s, modified_time |-> m]
MetaOther(k) == [kind |-> k, file_id |-> 0, size |-> 0, modified_time |-> 0]
NoMeta == MetaOther("absent")
ForeignKinds == {"badjson", "undecodable", "nonobject", "emptyobj"}

\* files().get(...).execute(): the metadata of a remote file. Drive reports no
\* size for its own document kinds.
RemoteMeta(hs, s, m) == [has_size |-> hs, size |-> s, modifiedTime |-> m]

\* int(file_metadata.get('size', 0))
size_of(meta) == IF meta.has_size THEN meta.size ELSE 0

\* What the metadata read of one attempt does: answers, or raises.
ReadOutcomes == {"ok", "HttpError", "SSLError", "ConnectionResetError"}

\* A comparison that leaves size out.
fingerprint_matches_no_size(metadata, file_id, drive_metadata) ==
    /\ metadata.kind = "record"
    /\ metadata.file_id = file_id
    /\ metadata.modified_time = drive_metadata.modifiedTime

\* A comparison that leaves modified_time out.
fingerprint_matches_no_time(metadata, file_id, drive_metadata) ==
    /\ metadata.kind = "record"
    /\ metadata.file_id = file_id
    /\ metadata.size = size_of(drive_metadata)

\* The comparison of the sidecar with the remote metadata (lines 237-241).
fingerprint_matches(metadata, file_id, drive_metadata) ==
    /\ metadata.kind = "record"
    /\ metadata.file_id = file_id
    /\ metadata.size = size_of(drive_metadata)
    /\ metadata.modified_time = drive_metadata.modifiedTime

\* One execution of the body of file_already_exists: its outcome and the
\* sidecar it leaves on disk.
file_already_exists(exists, sidecar, file_id, drive_metadata, read) ==
    IF ~exists \/ sidecar.kind = "absent"
    THEN [out |-> Returned(FALSE), sidecar |-> sidecar]
    ELSE IF sidecar.kind = "badjson"
    THEN [out |-> Returned(FALSE), sidecar |-> NoMeta]
    ELSE IF sidecar.kind = "undecodable"
    THEN [out |-> Raised("UnicodeDecodeError"), sidecar |-> sidecar]
    ELSE IF read = "HttpError"
    THEN [out |-> Returned(FALSE), sidecar |-> sidecar]
    ELSE IF read # "ok"
    THEN [out |-> Raised(read), sidecar |-> sidecar]
    ELSE IF sidecar.kind = "nonobject"
    THEN [out |-> Raised("AttributeError"), sidecar |-> sidecar]
    ELSE [out |-> Returned(fingerprint_matches(sidecar, file_id, drive_metadata)),
          sidecar |-> sidecar]

\* ------------------------------------------------------------ file names
\* A name is a sequence of characters; an extension such as .pdf is one
\* element, which is all endswith and the concatenation need.
MaxLength == 255
Forbidden == {"<", ">", ":", "\"", "/", "\\", "|", "?", "*"}

Allowed(c) == c \notin Forbidden

\* A cut to max_length before the characters are removed.
sanitize_filename_cut_first(filename, max_length) ==
    SelectSeq(IF Len(filename) > max_length THEN SubSeq(filename, 1, max_length)
              ELSE filename, Allowed)

\* re.sub(r'[<>:"/\\|?*]', '', filename), then the cut to max_length.
sanitize_filename(filename, max_length) ==
    LET sanitized == SelectSeq(filename, Allowed)
    IN IF Len(sanitized) > max_length THEN SubSeq(sanitized, 1, max_length)
       ELSE sanitized

\* export_mime_types.get(mime_type, (None, '')): the extension, <<>> for none.
get_export_mime_type_and_extension(mime_type) ==
    CASE mime_type = "document" -> [export |-> "application/pdf", ext |-> <<".pdf">>]
      [] mime_type = "spreadsheet" -> [export |-> "sheet", ext |-> <<".xlsx">>]
      [] mime_type = "presentation" -> [export |-> "presentation", ext |-> <<".pptx">>]
      [] OTHER -> [export |-> "None", ext |-> <<>>]

endswith(s, suffix) ==
    /\ Len(s) >= Len(suffix)
    /\ SubSeq(s, Len(s) - Len(suffix) + 1, Len(s)) = suffix

append_extension(file_name, extension) ==
    IF endswith(file_name, extension) THEN file_name ELSE file_name \o extension

\* mime_type.startswith('application/vnd.google-apps')
is_google_apps(mime_type) ==
    mime_type \in {"document", "spreadsheet", "presentation", "form", "folder"}

\* ------------------------------------------------------------------ state
VARIABLES
    tree,               \* the remote files: parent folder, name, mimeType
    num_workers,        \* config 'num_workers': the pool's max_workers
    remote,             \* each remote file's metadata now
    artifact,           \* local disk: the file at each destination path
    sidecar,            \* local disk: the .meta file beside each path
    pc,                 \* where the main thread is
    run,                \* runs of the process started so far
    root_idx,           \* index in shared_folder_data of the folder in work
    all_files,          \* process_subdirectory: get_all_files' result
    idx,                \* process_subdirectory: the item the filter loop is at
    files_to_download,  \* process_subdirectory: the fetch set
    counters,           \* main's counters dict
    sub_counters,       \* process_subdirectory's sub_counters dict
    tasks,              \* future_to_file: the futures of this folder
    faults,             \* network errors so far (bounded)
    crashes,            \* kills of the process so far (bounded)
    changes,            \* remote edits so far (bounded)
    log,                \* history: folder and run summaries, remote edits
    written,            \* history: <<path, task>> opened for writing this run
    processed,          \* history: files whose filter step ended this run
    interrupted,        \* history: files whose fetch the last kill cut short
    det,                \* SpecDetect: one call of file_already_exists
    lst,                \* SpecList: one call of list_files_in_folder
    walk,               \* SpecWalk: main's loop and the listings that fail
    fetch,              \* SpecFetch: one call of download_file
    san                 \* SpecName: one call of sanitize_filename

envVars == <<tree, num_workers>>
diskVars == <<artifact, sidecar>>
mainVars == <<pc, run, root_idx, all_files, idx, files_to_download, counters,
              sub_counters, tasks>>
histVars == <<faults, crashes, changes, log, written, processed, interrupted>>
syncVars == <<envVars, remote, diskVars, mainVars, histVars>>
unitVars == <<det, lst, walk, fetch, san>>
vars == <<syncVars, unitVars>>

\* ------------------------------------------------------------- SpecDetect
DetIds == 1..MaxId
DetSidecars ==
    {NoMeta} \cup {MetaOther(k) : k \in ForeignKinds}
    \cup {MetaRecord(i, s, m) : i \in DetIds, s \in 0..MaxSize, m \in 1..MaxTime}
DetRemotes ==
    {RemoteMeta(FALSE, 0, m) : m \in 1..MaxTime}
    \cup {RemoteMeta(TRUE, s, m) : s \in 0..MaxSize, m \in 1..MaxTime}

\* The variable of a specification that another specification leaves alone.
Off == [pc |-> "off"]

\* The sync state of a process that was never started.
SyncIdle ==
    /\ tree = <<>> /\ num_workers = 1 /\ remote = <<>>
    /\ artifact = <<>> /\ sidecar = <<>>
    /\ pc = "idle" /\ run = 0 /\ root_idx = 0
    /\ all_files = <<>> /\ idx = 0 /\ files_to_download = <<>>
    /\ counters = <<>> /\ sub_counters = <<>> /\ tasks = <<>>
    /\ faults = 0 /\ crashes = 0 /\ changes = 0 /\ log = <<>> /\ written = {}
    /\ processed = {} /\ interrupted = {}

DetInit ==
    /\ SyncIdle /\ lst = Off /\ walk = Off /\ fetch = Off /\ san = Off
    /\ \E e \in BOOLEAN, sc \in DetSidecars, i \in DetIds, r \in DetRemotes :
        det = [ pc |-> "call", exists |-> e, sidecar |-> sc, sidecar0 |-> sc,
                file_id |-> i, remote |-> r, attempt_number |-> 1,
                delays |-> <<>>, result |-> FALSE, exc |-> "none", read |-> "ok" ]

\* One attempt: the body runs, tenacity decides.
DetAttempt ==
    /\ det.pc = "call"
    /\ \E read \in ReadOutcomes :
        LET b == file_already_exists(det.exists, det.sidecar, det.file_id,
                                     det.remote, read)
            d == retry_decision(b.out, det.attempt_number)
        IN det' = [det EXCEPT
                !.sidecar = b.sidecar,
                !.read = read,
                !.pc = CASE d = "return" -> "returned"
                         [] d = "sleep" -> "sleep"
                         [] OTHER -> "raised",
                !.result = IF d = "return" THEN b.out.value ELSE FALSE,
                !.exc = CASE d = "reraise" -> b.out.exc
                          [] d = "RetryError" -> "RetryError"
                          [] OTHER -> "none"]
    /\ UNCHANGED <<syncVars, lst, walk, fetch, san>>

\* before_sleep, the sleep, and the next attempt.
DetSleep ==
    /\ det.pc = "sleep"
    /\ det' = [det EXCEPT
            !.pc = "call",
            !.delays = Append(@, wait_exponential(det.attempt_number)),
            !.attempt_number = @ + 1]
    /\ UNCHANGED <<syncVars, lst, walk, fetch, san>>

DetNext == DetAttempt \/ DetSleep

SpecDetect == DetInit /\ [][DetNext]_vars

DetDone == det.pc \in {"returned", "raised"}

\* The sidecar the call met holds a fingerprint record that differs from the
\* remote fingerprint (id, int(size or 0), modifiedTime) in some field.
DetDiffers ==
    /\ det.sidecar0.kind = "record"
    /\ \/ det.sidecar0.file_id # det.file_id
       \/ det.sidecar0.size # size_of(det.remote)
       \/ det.sidecar0.modified_time # det.remote.modifiedTime

\* C3 (freshness correctness): whenever file_already_exists returns, it
\* returns not-current for a sidecar whose fingerprint differs from the remote
\* one in id, size or modified_time, and it returns current only if the artifact
\* exists, the sidecar holds a record, and all three fields are equal. (A call
\* that ends in an exception returns nothing: C7.)
FreshnessCorrect ==
    det.pc = "returned" =>
        /\ DetDiffers => det.result = FALSE
        /\ det.result = TRUE =>
                /\ det.exists
                /\ det.sidecar0.kind = "record"
                /\ det.sidecar0.file_id = det.file_id
                /\ det.sidecar0.size = size_of(det.remote)
                /\ det.sidecar0.modified_time = det.remote.modifiedTime

\* A call whose metadata read answered, on a sidecar that differs from the
\* remote fingerprint in modified_time alone, has returned not-current.
FreshnessWitness ==
    /\ det.pc = "returned" /\ det.read = "ok" /\ det.exists
    /\ det.sidecar0.kind = "record"
    /\ det.sidecar0.file_id = det.file_id
    /\ det.sidecar0.size = size_of(det.remote)
    /\ det.sidecar0.modified_time # det.remote.modifiedTime
    /\ det.result = FALSE

\* C4 (corrupt-sidecar recovery), as claimed: a call that met, beside an
\* existing artifact, a sidecar whose content is no fingerprint record ends by
\* returning not-current with the sidecar deleted, and never in an exception.
CorruptSidecarRecovered ==
    (DetDone /\ det.exists /\ det.sidecar0.kind \in ForeignKinds) =>
        /\ det.pc = "returned"
        /\ det.result = FALSE
        /\ det.sidecar = NoMeta

\* ------------------------------------------------------------ the remote tree
MaxWorkers == 2     \* num_workers is 1..MaxWorkers
MaxRuns == 3        \* runs of the process
MaxFaults == 1      \* network errors in one behaviour
MaxCrashes == 1     \* kills of the process in one behaviour
MaxChanges == 1     \* remote edits in one behaviour

\* config.json's 'gdrive-shared-dir': two shared folders, in order. Folder 101
\* holds the folders 103 and 104, folder 103 the folder 105.
shared_folder_data ==
    << [id |-> 101, dest_dir |-> <<"d", "1">>],
       [id |-> 102, dest_dir |-> <<"d", ":", "2">>] >>

FileIds == {1, 2, 3}

\* The remote trees: files 1 and 2 in folder 103, file 3 in folder 102. File 1
\* varies in name and kind; file 2 is named a, or b.pdf beside a document b.
Tree(n1, k1, n2) ==
    [f \in FileIds |->
        CASE f = 1 -> [parent |-> 103, name |-> n1, mimeType |-> k1]
          [] f = 2 -> [parent |-> 103, name |-> n2, mimeType |-> "text/plain"]
          [] OTHER -> [parent |-> 102, name |-> <<"c">>, mimeType |-> "text/plain"]]
Trees ==
    { Tree(n1, k1, <<"a">>) : n1 \in {<<"b">>, <<"a", ":">>},
                              k1 \in {"text/plain", "document", "form"} }
    \cup { Tree(<<"b">>, "document", <<"b", ".pdf">>) }

Range(seq) == {seq[i] : i \in DOMAIN seq}

FolderIds == {101, 102, 103, 104, 105}
folder_parent(d) ==
    CASE d = 103 -> 101 [] d = 104 -> 101 [] d = 105 -> 103 [] OTHER -> 0
folder_name(d) ==
    CASE d = 103 -> <<"R", "/">> [] d = 104 -> <<"S">> [] d = 105 -> <<"T">>
      [] OTHER -> <<>>

RECURSIVE files_in(_, _, _)
files_in(t, folder_id, f) ==
    IF f \notin DOMAIN t THEN <<>>
    ELSE (IF t[f].parent = folder_id
          THEN <<[id |-> f, name |-> t[f].name, mimeType |-> t[f].mimeType]>>
          ELSE <<>>) \o files_in(t, folder_id, f + 1)

RECURSIVE folders_in(_, _)
folders_in(folder_id, d) ==
    IF d \notin FolderIds THEN <<>>
    ELSE (IF folder_parent(d) = folder_id
          THEN <<[id |-> d, name |-> folder_name(d), mimeType |-> "folder"]>>
          ELSE <<>>) \o folders_in(folder_id, d + 1)

\* What a call of list_files_in_folder that returns gives: the items of one
\* folder, drained over the pages of files().list(...).
list_files_in_folder(t, folder_id) ==
    files_in(t, folder_id, 1) \o folders_in(folder_id, 101)

\* The folders at and below folder_id.
RECURSIVE Subtree(_)
Subtree(folder_id) ==
    {folder_id} \cup UNION {Subtree(d) : d \in {c \in FolderIds : folder_parent(c) = folder_id}}

RECURSIVE get_all_files(_, _, _, _), walk_items(_, _, _, _)

\* A walk with no handler of its own: an exception of any listing below
\* folder_id ends the walk of folder_id.
get_all_files_uncontained(t, failing, folder_id, parent_path) ==
    IF Subtree(folder_id) \cap failing # {} THEN <<>>
    ELSE walk_items(t, failing, list_files_in_folder(t, folder_id), parent_path)

\* The files below folder_id, each with its sanitized name and relative path
\* (a sequence of path segments). failing holds the folders whose call of
\* list_files_in_folder ends in an exception: the handler (lines 301-304)
\* turns it into the empty list.
walk_items(t, failing, items, parent_path) ==
    IF items = <<>> THEN <<>>
    ELSE LET item == Head(items)
             item_name == sanitize_filename(item.name, MaxLength)
             item_path == Append(parent_path, item_name)
         IN (IF item.mimeType = "folder"
             THEN get_all_files(t, failing, item.id, item_path)
             ELSE <<[id |-> item.id, name |-> item_name, path |-> item_path]>>)
            \o walk_items(t, failing, Tail(items), parent_path)
get_all_files(t, failing, folder_id, parent_path) ==
    IF folder_id \in failing THEN <<>>
    ELSE walk_items(t, failing, list_files_in_folder(t, folder_id), parent_path)

\* os.path.join(shared_folder_local_path, item['path'])
destination_of(folder_info, item) ==
    <<sanitize_filename(folder_info.dest_dir, MaxLength)>> \o item.path

dirname(path) == SubSeq(path, 1, Len(path) - 1)

\* The path download_file opens for writing (lines 112-132): for an exported
\* kind the file name gains the extension.
write_path(destination_path, file_name, mime_type) ==
    IF is_google_apps(mime_type)
    THEN Append(dirname(destination_path),
                append_extension(file_name,
                    get_export_mime_type_and_extension(mime_type).ext))
    ELSE destination_path

\* Every path a run can touch.
PathsOf(t) ==
    UNION { UNION { { destination_of(shared_folder_data[r], item),
                      write_path(destination_of(shared_folder_data[r], item),
                                 item.name, t[item.id].mimeType) }
                    : item \in Range(get_all_files(t, {}, shared_folder_data[r].id, <<>>)) }
            : r \in DOMAIN shared_folder_data }

\* ------------------------------------------------------------ the local disk
FileContent(k, i, s, m) ==
    [kind |-> k, file_id |-> i, size |-> s, modified_time |-> m]
NoFile == FileContent("absent", 0, 0, 0)

\* ------------------------------------------------------------ download_file
\* What the body makes of an exception: both handlers (lines 164-171) return
\* the tuple (file_name, False, message).
Outcome(ok, m, tr) == [success |-> ok, msg |-> m, transient |-> tr]

caught(exc) ==
    IF isinstance(exc, {"SSLError"}) THEN Outcome(FALSE, "SSL error", TRUE)
    ELSE Outcome(FALSE, exc, isinstance(exc, RetryTypes))

\* What next_chunk can do.
ChunkEvents == {"done", "SSLError", "Http403", "Http500"}

\* The end of the streaming loop on a chunk that raises: the loop of a direct
\* download looks at an HttpError's status (lines 143-150), the export loop
\* does not (lines 126-129).
chunk_failure(mime_type, ev) ==
    IF ev = "SSLError" THEN caught("SSLError")
    ELSE IF ev = "Http403" /\ ~is_google_apps(mime_type)
    THEN Outcome(FALSE, "Quota or rate limit exceeded", FALSE)
    ELSE caught("HttpError")

NewTask(entry) ==
    [ file_id |-> entry[1], file_name |-> entry[2], destination_path |-> entry[3],
      st |-> "queued", recorded |-> FALSE, attempts |-> 1,
      result |-> Outcome(FALSE, "", FALSE), wpath |-> <<>>,
      file_metadata |-> RemoteMeta(FALSE, 0, 0) ]

\* The body of download_file has returned res: tenacity hands the tuple to the
\* future, or would call again had the body raised.
task_return(task, res) ==
    IF retry_decision(Returned(res), task.attempts) = "sleep"
    THEN [task EXCEPT !.st = "queued", !.attempts = @ + 1]
    ELSE [task EXCEPT !.st = "done", !.result = res]

\* ------------------------------------------------------------- the counters
ZeroCounters == [skipped |-> 0, failed |-> 0, downloaded |-> 0, total_files |-> 0]
ZeroSub == [downloaded |-> 0, skipped |-> 0, failed |-> 0]

\* A loop body that drops the unsuccessful outcomes.
record_outcome_lossy(c, success) ==
    IF success THEN [c EXCEPT !.downloaded = @ + 1] ELSE c

\* The body of the as_completed loop for one future (lines 376-394).
record_outcome(c, success) ==
    IF success THEN [c EXCEPT !.downloaded = @ + 1]
    ELSE [c EXCEPT !.failed = @ + 1]

LogEntry(ev, c, fetched, f, field) ==
    [ ev |-> ev, run |-> run, root |-> root_idx, counters |-> c,
      fetched |-> fetched, processed |-> processed, file |-> f, field |-> field ]

\* ------------------------------------------------------------------- Init
DetOff ==
    [ pc |-> "off", exists |-> FALSE, sidecar |-> NoMeta, sidecar0 |-> NoMeta,
      file_id |-> 0, remote |-> RemoteMeta(FALSE, 0, 0), attempt_number |-> 0,
      delays |-> <<>>, result |-> FALSE, exc |-> "none", read |-> "ok" ]

Init ==
    /\ tree \in Trees
    /\ num_workers \in 1..MaxWorkers
    /\ remote = [f \in FileIds |->
                    IF is_google_apps(tree[f].mimeType) THEN RemoteMeta(FALSE, 0, 1)
                    ELSE RemoteMeta(TRUE, 1, 1)]
    /\ artifact = [p \in PathsOf(tree) |-> NoFile]
    /\ sidecar = [p \in PathsOf(tree) |-> NoMeta]
    /\ pc = "idle" /\ run = 0 /\ root_idx = 0
    /\ all_files = <<>> /\ idx = 0 /\ files_to_download = <<>>
    /\ counters = ZeroCounters /\ sub_counters = ZeroSub /\ tasks = <<>>
    /\ faults = 0 /\ crashes = 0 /\ changes = 0 /\ log = <<>> /\ written = {}
    /\ processed = {} /\ interrupted = {}
    /\ det = DetOff /\ lst = Off /\ walk = Off /\ fetch = Off /\ san = Off

\* ------------------------------------------------------------ the main thread
\* What the metadata read answers on each attempt of one decorated call.
Steady(r) == [i \in 1..StopAfterAttempt |-> r]
Scripts ==
    {Steady(r) : r \in ReadOutcomes}
    \cup {[i \in 1..StopAfterAttempt |-> IF i = 1 THEN "SSLError" ELSE "ok"]}

\* file_already_exists as its caller sees it: the body under @retry.
RECURSIVE call_file_already_exists(_, _, _, _, _, _)
call_file_already_exists(exists, sc, file_id, drive_metadata, script, attempt_number) ==
    LET b == file_already_exists(exists, sc, file_id, drive_metadata,
                                 script[attempt_number])
        d == retry_decision(b.out, attempt_number)
    IN IF d = "sleep"
       THEN call_file_already_exists(exists, b.sidecar, file_id, drive_metadata,
                                     script, attempt_number + 1)
       ELSE [decision |-> d, value |-> b.out.value, sidecar |-> b.sidecar,
             attempts |-> attempt_number]

\* The body reaches its metadata read (line 225).
reads_remote(exists, sc) ==
    exists /\ sc.kind \in {"record", "nonobject", "emptyobj"}

\* process_subdirectory returned: main's loop goes on to the next folder.
Advance ==
    IF root_idx < Len(shared_folder_data)
    THEN pc' = "begin" /\ root_idx' = root_idx + 1
    ELSE pc' = "summary" /\ UNCHANGED root_idx

\* main up to the loop over the shared folders (lines 460-502).
StartRun ==
    /\ pc = "idle" /\ run < MaxRuns
    /\ run' = run + 1 /\ root_idx' = 1 /\ pc' = "begin"
    /\ counters' = ZeroCounters
    /\ written' = {} /\ processed' = {} /\ interrupted' = {}
    /\ UNCHANGED <<envVars, remote, diskVars, all_files, idx, files_to_download,
                   sub_counters, tasks, faults, crashes, changes, log, unitVars>>

\* process_subdirectory up to the filter loop (lines 318-340). No listing
\* fails in the runs of Spec: SpecWalk has the listings that fail.
BeginRoot ==
    /\ pc = "begin"
    /\ LET found == get_all_files(tree, {}, shared_folder_data[root_idx].id, <<>>)
       IN IF found = <<>>
          THEN /\ Advance
               /\ log' = Append(log, LogEntry("root", counters, {}, 0, "none"))
               /\ UNCHANGED <<all_files, idx, files_to_download>>
          ELSE /\ all_files' = found /\ idx' = 1 /\ files_to_download' = <<>>
               /\ pc' = "filter"
               /\ UNCHANGED <<root_idx, log>>
    /\ tasks' = <<>> /\ sub_counters' = ZeroSub
    /\ UNCHANGED <<envVars, remote, diskVars, run, counters, faults, crashes, changes,
                   written, processed, interrupted, unitVars>>

\* One turn of the filter loop (lines 341-349). An exception of the check is
\* caught nowhere before main's handler (line 511), which ends the loop over
\* the folders.
FilterItem ==
    /\ pc = "filter" /\ idx <= Len(all_files)
    /\ LET item == all_files[idx]
           destination_path == destination_of(shared_folder_data[root_idx], item)
           exists == artifact[destination_path].kind # "absent"
       IN \E script \in Scripts :
            /\ script # Steady("ok") =>
                    faults < MaxFaults /\ reads_remote(exists, sidecar[destination_path])
            /\ faults' = IF script = Steady("ok") THEN faults ELSE faults + 1
            /\ LET r == call_file_already_exists(exists, sidecar[destination_path],
                            item.id, remote[item.id], script, 1)
               IN /\ sidecar' = [sidecar EXCEPT ![destination_path] = r.sidecar]
                  /\ IF r.decision # "return"
                     THEN /\ pc' = "summary"
                          /\ UNCHANGED <<idx, files_to_download, counters, processed>>
                     ELSE /\ pc' = pc /\ idx' = idx + 1
                          /\ processed' = processed \cup {item.id}
                          /\ IF r.value
                             THEN /\ counters' = [counters EXCEPT !.skipped = @ + 1]
                                  /\ UNCHANGED files_to_download
                             ELSE /\ files_to_download' = Append(files_to_download,
                                        <<item.id, item.name, destination_path>>)
                                  /\ UNCHANGED counters
    /\ UNCHANGED <<envVars, remote, artifact, run, root_idx, all_files,
                   sub_counters, tasks, crashes, changes, log, written, interrupted,
                   unitVars>>

\* After the filter loop (lines 351-373): the total, and one future per entry
\* of the fetch set.
Submit ==
    /\ pc = "filter" /\ idx > Len(all_files)
    /\ LET total_files == Len(files_to_download)
           c == [counters EXCEPT !.total_files = @ + total_files]
       IN /\ counters' = c
          /\ IF total_files = 0
             THEN /\ Advance
                  /\ log' = Append(log, LogEntry("root", c, {}, 0, "none"))
                  /\ UNCHANGED <<tasks, sub_counters>>
             ELSE /\ tasks' = [i \in 1..total_files |-> NewTask(files_to_download[i])]
                  /\ sub_counters' = ZeroSub
                  /\ pc' = "collect"
                  /\ UNCHANGED <<root_idx, log>>
    /\ UNCHANGED <<envVars, remote, diskVars, run, all_files, idx, files_to_download,
                   faults, crashes, changes, written, processed, interrupted, unitVars>>

Streaming == {t \in DOMAIN tasks : tasks[t].st = "stream"}

\* A pool that starts a thread for every call submitted.
worker_free_unbounded(running, max_workers) == TRUE

\* ThreadPoolExecutor(max_workers=num_workers): a queued call starts only on
\* a thread that runs no other call (line 501).
worker_free(running, max_workers) == Cardinality(running) < max_workers

\* as_completed that ends with the first future done.
as_completed_first(ts) == \E t \in DOMAIN ts : ts[t].recorded

\* The as_completed loop has gone over every future of future_to_file
\* (line 375).
as_completed_exhausted(ts) == \A t \in DOMAIN ts : ts[t].recorded

\* A free worker takes the oldest queued call of download_file and runs it up
\* to the streaming loop (lines 103-134).
TaskStart(t) ==
    /\ pc = "collect" /\ tasks[t].st = "queued"
    /\ \A u \in DOMAIN tasks : u < t => tasks[u].st # "queued"
    /\ worker_free(Streaming, num_workers)
    /\ LET task == tasks[t]
           mime_type == tree[task.file_id].mimeType
           wp == write_path(task.destination_path, task.file_name, mime_type)
       IN \E read \in ReadOutcomes :
            /\ read # "ok" => faults < MaxFaults
            /\ faults' = IF read = "ok" THEN faults ELSE faults + 1
            /\ IF read # "ok"
               THEN /\ tasks' = [tasks EXCEPT ![t] = task_return(task, caught(read))]
                    /\ UNCHANGED <<artifact, written>>
               ELSE IF /\ is_google_apps(mime_type)
                       /\ get_export_mime_type_and_extension(mime_type).export = "None"
               THEN /\ tasks' = [tasks EXCEPT ![t] = task_return(task,
                                    Outcome(FALSE, "Unsupported MIME type", FALSE))]
                    /\ UNCHANGED <<artifact, written>>
               ELSE /\ tasks' = [tasks EXCEPT ![t] =
                            [task EXCEPT !.st = "stream", !.wpath = wp,
                                         !.file_metadata = remote[task.file_id]]]
                    /\ artifact' = [artifact EXCEPT ![wp] =
                            FileContent("partial", task.file_id, 0, 0)]
                    /\ written' = written \cup {<<wp, task.file_id>>}
    /\ UNCHANGED <<envVars, remote, sidecar, pc, run, root_idx, all_files, idx,
                   files_to_download, counters, sub_counters, crashes, changes, log,
                   processed, interrupted, unitVars>>

\* The streaming loop ends (lines 125-162): the last chunk arrives and the
\* sidecar is written, or next_chunk raises.
TaskChunk(t) ==
    /\ pc = "collect" /\ tasks[t].st = "stream"
    /\ LET task == tasks[t]
           mime_type == tree[task.file_id].mimeType
           now == remote[task.file_id]
       IN \E ev \in ChunkEvents :
            /\ ev # "done" => faults < MaxFaults
            /\ faults' = IF ev = "done" THEN faults ELSE faults + 1
            /\ IF ev = "done"
               THEN /\ artifact' = [artifact EXCEPT ![task.wpath] =
                            FileContent("complete", task.file_id, size_of(now),
                                        now.modifiedTime)]
                    /\ sidecar' = [sidecar EXCEPT ![task.wpath] =
                            MetaRecord(task.file_id, size_of(task.file_metadata),
                                       task.file_metadata.modifiedTime)]
                    /\ tasks' = [tasks EXCEPT ![t] =
                            task_return(task, Outcome(TRUE, "", FALSE))]
               ELSE /\ tasks' = [tasks EXCEPT ![t] =
                            task_return(task, chunk_failure(mime_type, ev))]
                    /\ UNCHANGED <<artifact, sidecar>>
    /\ UNCHANGED <<envVars, remote, pc, run, root_idx, all_files, idx,
                   files_to_download, counters, sub_counters, crashes, changes, log,
                   written, processed, interrupted, unitVars>>

\* One turn of the as_completed loop (lines 375-396).
Record(t) ==
    /\ pc = "collect" /\ tasks[t].st = "done" /\ ~tasks[t].recorded
    /\ counters' = record_outcome(counters, tasks[t].result.success)
    /\ sub_counters' = record_outcome(sub_counters, tasks[t].result.success)
    /\ tasks' = [tasks EXCEPT ![t].recorded = TRUE]
    /\ UNCHANGED <<envVars, remote, diskVars, pc, run, root_idx, all_files, idx,
                   files_to_download, histVars, unitVars>>

\* as_completed is exhausted: the folder's statistics (lines 398-405).
RootDone ==
    /\ pc = "collect" /\ as_completed_exhausted(tasks)
    /\ Advance
    /\ log' = Append(log, LogEntry("root", counters,
                    {tasks[t].file_id : t \in DOMAIN tasks}, 0, "none"))
    /\ tasks' = <<>>
    /\ UNCHANGED <<envVars, remote, diskVars, run, all_files, idx, files_to_download,
                   counters, sub_counters, faults, crashes, changes, written,
                   processed, interrupted, unitVars>>

\* The download summary (lines 516-526) and the end of the process.
FinishRun ==
    /\ pc = "summary"
    /\ pc' = "idle"
    /\ log' = Append(log, LogEntry("run", counters, {}, 0, "none"))
    /\ all_files' = <<>> /\ idx' = 0 /\ files_to_download' = <<>> /\ tasks' = <<>>
    /\ sub_counters' = ZeroSub /\ counters' = ZeroCounters /\ root_idx' = 0
    /\ written' = {} /\ processed' = {}
    /\ UNCHANGED <<envVars, remote, diskVars, run, faults, crashes, changes, interrupted, unitVars>>

\* The process is killed during a run: the disk stays as it is.
Crash ==
    /\ pc \notin {"idle", "summary"} /\ crashes < MaxCrashes
    /\ crashes' = crashes + 1
    /\ pc' = "idle"
    /\ interrupted' = {tasks[t].file_id : t \in Streaming}
    /\ log' = Append(log, [LogEntry("crash", ZeroCounters, {}, 0, "none")
                            EXCEPT !.root = 0, !.processed = {}])
    /\ all_files' = <<>> /\ idx' = 0 /\ files_to_download' = <<>> /\ tasks' = <<>>
    /\ sub_counters' = ZeroSub /\ counters' = ZeroCounters /\ root_idx' = 0
    /\ written' = {} /\ processed' = {}
    /\ UNCHANGED <<envVars, remote, diskVars, run, faults, changes, unitVars>>

\* Between two runs a remote file is edited: a file with a byte stream gets
\* another size, a document another modifiedTime.
RemoteChange(f) ==
    /\ pc = "idle" /\ run >= 1 /\ changes < MaxChanges
    /\ changes' = changes + 1
    /\ IF remote[f].has_size
       THEN /\ \E s \in (1..MaxSize) \ {remote[f].size} :
                  remote' = [remote EXCEPT ![f].size = s]
            /\ log' = Append(log, LogEntry("change", counters, {}, f, "size"))
       ELSE /\ \E m \in (1..MaxTime) \ {remote[f].modifiedTime} :
                  remote' = [remote EXCEPT ![f].modifiedTime = m]
            /\ log' = Append(log, LogEntry("change", counters, {}, f, "modifiedTime"))
    /\ UNCHANGED <<envVars, diskVars, mainVars, faults, crashes, written, processed,
                   interrupted, unitVars>>

Next ==
    \/ StartRun
    \/ BeginRoot
    \/ FilterItem
    \/ Submit
    \/ \E t \in DOMAIN tasks : TaskStart(t)
    \/ \E t \in DOMAIN tasks : TaskChunk(t)
    \/ \E t \in DOMAIN tasks : Record(t)
    \/ RootDone
    \/ FinishRun
    \/ Crash
    \/ \E f \in FileIds : RemoteChange(f)

Spec == Init /\ [][Next]_vars

\* --------------------------------------------------------------- SpecList
MaxPages == 2       \* the listing of the folder spans 1..MaxPages pages
MaxPerPage == 2     \* a page holds 0..MaxPerPage items

RECURSIVE SumTo(_, _)
SumTo(sizes, k) == IF k = 0 THEN 0 ELSE sizes[k] + SumTo(sizes, k - 1)

\* The pages of a folder's listing: the items are numbered through.
PagesOf(sizes) ==
    [k \in DOMAIN sizes |-> [i \in 1..sizes[k] |-> SumTo(sizes, k - 1) + i]]
Listings ==
    {PagesOf(sizes) : sizes \in UNION {[1..n -> 0..MaxPerPage] : n \in 1..MaxPages}}

\* What files().list(...).execute() and the reading of its response can
\* do: answer a page, or raise. Http404 and Http429 are HttpError with that
\* status; AttributeError stands for a response that is no dict.
ListEvents ==
    {"page", "Http404", "Http429", "SSLError", "ConnectionResetError", "AttributeError"}
exception_of(ev) == IF ev \in {"Http404", "Http429"} THEN "HttpError" ELSE ev

\* A restart of the body that goes on with the items of the attempt before.
list_restart_keeps_items(l) == [l EXCEPT !.page_token = 0]

\* The start of the body of list_files_in_folder (lines 65-66):
\* page_token = None, items = [].
list_restart(l) == [l EXCEPT !.page_token = 0, !.items = <<>>]

ListInit ==
    /\ SyncIdle /\ det = DetOff /\ walk = Off /\ fetch = Off /\ san = Off
    /\ \E pages \in Listings :
        lst = list_restart(
                [ pc |-> "page", pages |-> pages, page_token |-> 0, items |-> <<>>,
                  read |-> <<>>, attempt_number |-> 1, delays |-> <<>>,
                  errors |-> <<>>, result |-> <<>>, exc |-> "none" ])

\* One turn of the while loop (lines 67-75) under @retry: the page is added
\* and the loop goes on or the items are returned, or the exception goes
\* through the handler (lines 78-81), which raises it again, to tenacity.
ListPage ==
    /\ lst.pc = "page"
    /\ \E ev \in ListEvents :
        IF ev = "page"
        THEN LET k == IF lst.page_token = 0 THEN 1 ELSE lst.page_token
                 items == lst.items \o lst.pages[k]
                 page_token == IF k < Len(lst.pages) THEN k + 1 ELSE 0
             IN lst' = [lst EXCEPT
                    !.items = items, !.page_token = page_token,
                    !.read = Append(@, k),
                    !.pc = IF page_token = 0 THEN "returned" ELSE "page",
                    !.result = IF page_token = 0 THEN items ELSE @]
        ELSE LET d == retry_decision(Raised(exception_of(ev)), lst.attempt_number)
             IN lst' = [lst EXCEPT
                    !.errors = Append(@, ev),
                    !.pc = IF d = "sleep" THEN "sleep" ELSE "raised",
                    !.exc = CASE d = "sleep" -> "none"
                              [] d = "RetryError" -> "RetryError"
                              [] OTHER -> exception_of(ev)]
    /\ UNCHANGED <<syncVars, det, walk, fetch, san>>

\* before_sleep, the sleep, and the next execution of the body.
ListSleep ==
    /\ lst.pc = "sleep"
    /\ lst' = list_restart([lst EXCEPT
                !.pc = "page", !.read = <<>>,
                !.delays = Append(@, wait_exponential(lst.attempt_number)),
                !.attempt_number = @ + 1])
    /\ UNCHANGED <<syncVars, det, walk, fetch, san>>

ListNext == ListPage \/ ListSleep

SpecList == ListInit /\ [][ListNext]_vars

\* The errors the retry policy calls transient: connection reset, socket and
\* TLS errors, rate-limit responses.
Transient == {"Http429", "SSLError", "ConnectionResetError"}

\* C15 (fatal errors are not retried), as claimed: an attempt of a listing
\* call that fails with an error that is not transient is the call's last
\* attempt, with no backoff sleep after it, and the failure is raised; so a
\* call whose first attempt fails that way is attempted once.
FatalNotRetried ==
    lst.pc # "off" =>
        \A i \in DOMAIN lst.errors :
            lst.errors[i] \notin Transient =>
                /\ i = Len(lst.errors) /\ lst.attempt_number = i
                /\ lst.pc = "raised" /\ Len(lst.delays) = i - 1

RECURSIVE Flatten(_)
Flatten(pages) == IF pages = <<>> THEN <<>> ELSE Head(pages) \o Flatten(Tail(pages))

\* C19 (listing retry budget and backoff): every sleep of a listing call
\* lasts between 4 and 10 and no sleep is shorter than the one before; a
\* call is in its n-th attempt after n - 1 sleeps, never in a sixth; and a
\* call whose attempts have all failed with a transient error has ended, if it
\* has ended, after 5 attempts and 4 sleeps with the error raised to the
\* caller.
ListingRetryBudget ==
    lst.pc # "off" =>
        /\ \A i \in DOMAIN lst.delays :
                /\ WaitMin <= lst.delays[i] /\ lst.delays[i] <= WaitMax
                /\ i > 1 => lst.delays[i - 1] <= lst.delays[i]
        /\ lst.attempt_number <= StopAfterAttempt
        /\ Len(lst.delays) = lst.attempt_number - 1
        /\ ( /\ lst.pc \in {"returned", "raised"}
             /\ Len(lst.errors) = lst.attempt_number
             /\ \A i \in DOMAIN lst.errors : lst.errors[i] \in Transient )
           => /\ lst.attempt_number = StopAfterAttempt
              /\ Len(lst.delays) = StopAfterAttempt - 1
              /\ lst.pc = "raised" /\ lst.exc = "RetryError"

\* Five attempts have failed on transient errors, the last two of them on a
\* rate-limit response, and the call has raised.
ListingRetryBudgetWitness ==
    /\ lst.pc = "raised" /\ Len(lst.errors) = StopAfterAttempt
    /\ \A i \in DOMAIN lst.errors : lst.errors[i] \in Transient
    /\ lst.errors[StopAfterAttempt] = "Http429"
    /\ lst.errors[StopAfterAttempt - 1] = "Http429"
    /\ Len(lst.delays) = StopAfterAttempt - 1

\* C20 (pagination is drained exactly once): a listing call that returns,
\* after any failures that tenacity retried, returns every item of every page
\* once, in the pages' order, and its last execution of the body has read
\* every page once, the one without nextPageToken last.
PaginationDrainedOnce ==
    lst.pc = "returned" =>
        /\ lst.result = Flatten(lst.pages)
        /\ lst.read = [k \in 1..Len(lst.pages) |-> k]

\* A listing of two pages with items on both was returned in the third
\* attempt, after a failure on the second page.
PaginationWitness ==
    /\ lst.pc = "returned" /\ lst.attempt_number = 3
    /\ Len(lst.pages) = 2 /\ lst.pages[1] # <<>> /\ lst.pages[2] # <<>>
    /\ lst.errors # <<>>
    /\ Len(lst.result) = Len(lst.pages[1]) + Len(lst.pages[2])

\* --------------------------------------------------------------- SpecWalk
MaxWalkFiles == 3   \* the remote tree of SpecWalk holds files 1..MaxWalkFiles

WalkNames == <<"a", "b", "c", "d", "e", "f">>

\* Every placement of the files in the folders.
WalkTrees ==
    { [f \in 1..MaxWalkFiles |->
            [parent |-> place[f], name |-> <<WalkNames[f]>>, mimeType |-> "text/plain"]]
      : place \in [1..MaxWalkFiles -> FolderIds] }

NoRoots == [r \in DOMAIN shared_folder_data |-> <<>>]

WalkInit ==
    /\ SyncIdle /\ det = DetOff /\ lst = Off /\ fetch = Off /\ san = Off
    /\ \E t \in WalkTrees, failing \in SUBSET FolderIds :
        walk = [ pc |-> "loop", tree |-> t, failing |-> failing, root_idx |-> 1,
                 all_files |-> NoRoots, files_to_download |-> NoRoots,
                 counters |-> ZeroCounters ]

\* One call of process_subdirectory on an empty local disk (lines 318-373):
\* with no artifact, file_already_exists answers False before any remote read
\* (lines 213-214), so every file enumerated is put in the fetch set.
WalkRoot ==
    /\ walk.pc = "loop" /\ walk.root_idx <= Len(shared_folder_data)
    /\ LET r == walk.root_idx
           found == get_all_files(walk.tree, walk.failing, shared_folder_data[r].id, <<>>)
           todo == [i \in DOMAIN found |->
                       <<found[i].id, found[i].name,
                         destination_of(shared_folder_data[r], found[i])>>]
       IN walk' = [walk EXCEPT
                !.root_idx = r + 1,
                !.all_files[r] = found,
                !.files_to_download[r] = todo,
                !.counters.total_files = @ + Len(todo)]
    /\ UNCHANGED <<syncVars, det, lst, fetch, san>>

\* The loop over the shared folders has ended (lines 502-516).
WalkEnd ==
    /\ walk.pc = "loop" /\ walk.root_idx > Len(shared_folder_data)
    /\ walk' = [walk EXCEPT !.pc = "summary"]
    /\ UNCHANGED <<syncVars, det, lst, fetch, san>>

WalkNext == WalkRoot \/ WalkEnd

SpecWalk == WalkInit /\ [][WalkNext]_vars

\* The folders from d up to its shared folder.
RECURSIVE Ancestors(_)
Ancestors(d) == IF d \notin FolderIds THEN {} ELSE {d} \cup Ancestors(folder_parent(d))

\* The files at or below the shared folder root_id that no folder with a
\* failed listing lies above.
Covered(t, failing, root_id) ==
    {f \in DOMAIN t : /\ root_id \in Ancestors(t[f].parent)
                      /\ Ancestors(t[f].parent) \cap failing = {}}

\* C13 (listing-failure containment): for every shared folder that main's
\* loop has gone through, with any set of folders whose listing fails, the
\* enumeration holds exactly once every file that lies below no failed
\* folder: files in sibling folders and files directly in a failed folder's
\* parent are there, whatever failed in the other shared folder, and each of
\* them is put in the fetch set.
ListingFailureContained ==
    walk.pc # "off" =>
        \A r \in 1..(walk.root_idx - 1) :
            LET found == walk.all_files[r]
                todo == walk.files_to_download[r]
                want == Covered(walk.tree, walk.failing, shared_folder_data[r].id)
            IN /\ {found[i].id : i \in DOMAIN found} = want
               /\ Len(found) = Cardinality(want)
               /\ {todo[i][1] : i \in DOMAIN todo} = want

\* The listing of folder 103 alone failed, with file 1 directly in its parent
\* 101, file 2 below it in folder 105 and file 3 in its sibling 104: the run
\* ended with files 1 and 3 enumerated for folder 101.
ListingFailureWitness ==
    /\ walk.pc = "summary" /\ walk.failing = {103}
    /\ walk.tree[1].parent = 101 /\ walk.tree[2].parent = 105
    /\ walk.tree[3].parent = 104
    /\ {walk.all_files[1][i].id : i \in DOMAIN walk.all_files[1]} = {1, 3}

\* -------------------------------------------------------------- SpecFetch
\* One call download_file(service, file_id, file_name, destination_path) of a
\* worker, step by step. Each step that touches the disk or the remote can
\* raise.
FetchKinds == {"text/plain", "document", "form"}
FetchId == 1
FetchName == <<"b">>
FetchDestination == << <<"d">>, <<"b">> >>

\* What os.makedirs and io.FileIO(destination_path, 'wb') can do.
DiskOutcomes == {"ok", "OSError"}

\* What the sidecar write (lines 158-159) can do: open(..., 'w') raises and
\* the file stays as it was, or open has truncated the file and json.dump or
\* the close that flushes it raises, which leaves a cut-off file.
MetaWriteOutcomes == {"ok", "open raises", "write raises"}

\* Handlers that let everything but an SSL error through.
download_file_except_ssl_only(exc) ==
    IF isinstance(exc, {"SSLError"}) THEN Returned(caught(exc)) ELSE Raised(exc)

\* The except clauses of download_file (lines 164-171): what the body's
\* execution ends in when exc is raised inside the try block.
download_file_except(exc) ==
    IF isinstance(exc, {"SSLError", "Exception"}) THEN Returned(caught(exc))
    ELSE Raised(exc)

\* The finally clause (lines 172-179): file.close() if a file was opened.
download_file_finally(file) == IF file = "open" THEN "closed" ELSE file

\* The body's execution ends in out (a returned tuple or an exception): the
\* finally clause runs, then tenacity hands the tuple back, raises, or sleeps
\* and calls the body again.
fetch_end(f, out, step) ==
    LET d == retry_decision(out, f.attempt_number)
        g == [f EXCEPT !.failed_step = step]
    IN IF d = "sleep"
       THEN [g EXCEPT !.pc = "makedirs", !.attempt_number = @ + 1,
                      !.closed = @ /\ download_file_finally(f.file) # "open",
                      !.file = "None"]
       ELSE [g EXCEPT !.pc = IF d = "return" THEN "returned" ELSE "raised",
                      !.result = IF d = "return" THEN out.value
                                 ELSE Outcome(FALSE, "", FALSE),
                      !.exc = CASE d = "return" -> "none"
                                [] d = "RetryError" -> "RetryError"
                                [] OTHER -> out.exc,
                      !.closed = @ /\ download_file_finally(f.file) # "open",
                      !.file = download_file_finally(f.file)]

\* A record made of the metadata the remote has when the record is written.
sidecar_metadata_at_end(f) ==
    MetaRecord(FetchId, size_of(f.remote), f.remote.modifiedTime)

\* The metadata dict dumped into the sidecar (lines 153-157): file_id, and
\* size and modifiedTime of file_metadata, the answer of the read at line 109.
sidecar_metadata(f) ==
    MetaRecord(FetchId, size_of(f.file_metadata), f.file_metadata.modifiedTime)

FetchInit ==
    /\ SyncIdle /\ det = DetOff /\ lst = Off /\ walk = Off /\ san = Off
    /\ \E mime_type \in FetchKinds, r \in DetRemotes, old \in BOOLEAN :
        LET wp == write_path(FetchDestination, FetchName, mime_type)
            paths == {FetchDestination, wp}
            a0 == [p \in paths |->
                    IF old /\ p = wp THEN FileContent("complete", FetchId, 1, 1)
                    ELSE NoFile]
            s0 == [p \in paths |->
                    IF old /\ p = wp THEN MetaRecord(FetchId, 1, 1) ELSE NoMeta]
        IN /\ r.has_size = ~is_google_apps(mime_type)
           /\ fetch = [ pc |-> "makedirs", mime_type |-> mime_type, remote |-> r,
                        file_name |-> FetchName, destination_path |-> FetchDestination,
                        artifact |-> a0, sidecar |-> s0, sidecar0 |-> s0,
                        file |-> "None", closed |-> TRUE,
                        file_metadata |-> RemoteMeta(FALSE, 0, 0),
                        attempt_number |-> 1, streamed |-> FALSE,
                        failed_step |-> "none", changes |-> 0,
                        result |-> Outcome(FALSE, "", FALSE), exc |-> "none" ]

\* os.makedirs(os.path.dirname(destination_path), exist_ok=True) (line 104).
FetchMakedirs ==
    /\ fetch.pc = "makedirs"
    /\ \E o \in DiskOutcomes :
        fetch' = IF o = "ok" THEN [fetch EXCEPT !.pc = "metadata"]
                 ELSE fetch_end(fetch, download_file_except(o), "makedirs")
    /\ UNCHANGED <<syncVars, det, lst, walk, san>>

\* The metadata read and the choice of the branch (lines 109-118).
FetchMetadata ==
    /\ fetch.pc = "metadata"
    /\ \E read \in ReadOutcomes :
        fetch' =
            IF read # "ok"
            THEN fetch_end(fetch, download_file_except(read), "metadata")
            ELSE IF /\ is_google_apps(fetch.mime_type)
                    /\ get_export_mime_type_and_extension(fetch.mime_type).export = "None"
            THEN fetch_end([fetch EXCEPT !.file_metadata = fetch.remote],
                           Returned(Outcome(FALSE, "Unsupported MIME type", FALSE)),
                           "kind")
            ELSE [fetch EXCEPT
                    !.pc = "open", !.file_metadata = fetch.remote,
                    !.file_name = IF is_google_apps(fetch.mime_type)
                                  THEN append_extension(@,
                                        get_export_mime_type_and_extension(
                                            fetch.mime_type).ext)
                                  ELSE @,
                    !.destination_path = write_path(@, fetch.file_name,
                                                    fetch.mime_type)]
    /\ UNCHANGED <<syncVars, det, lst, walk, san>>

\* file = io.FileIO(destination_path, 'wb') (lines 123, 132): the file is
\* created or emptied.
FetchOpen ==
    /\ fetch.pc = "open"
    /\ \E o \in DiskOutcomes :
        fetch' =
            IF o = "ok"
            THEN [fetch EXCEPT
                    !.pc = "stream", !.file = "open",
                    !.artifact[fetch.destination_path] =
                        FileContent("partial", FetchId, 0, 0)]
            ELSE fetch_end(fetch, download_file_except(o), "open")
    /\ UNCHANGED <<syncVars, det, lst, walk, san>>

\* The streaming loop (lines 125-150) up to its end: the last chunk, or a
\* chunk that raises.
FetchChunk ==
    /\ fetch.pc = "stream"
    /\ \E ev \in ChunkEvents :
        fetch' =
            IF ev = "done"
            THEN [fetch EXCEPT
                    !.pc = "meta", !.streamed = TRUE,
                    !.artifact[fetch.destination_path] =
                        FileContent("complete", FetchId, size_of(fetch.remote),
                                    fetch.remote.modifiedTime)]
            ELSE IF ev = "Http403" /\ ~is_google_apps(fetch.mime_type)
            THEN fetch_end(fetch, Returned(chunk_failure(fetch.mime_type, ev)), "stream")
            ELSE fetch_end(fetch,
                    download_file_except(IF ev = "SSLError" THEN ev ELSE "HttpError"),
                    "stream")
    /\ UNCHANGED <<syncVars, det, lst, walk, san>>

\* The sidecar write and the return (lines 152-162).
FetchMeta ==
    /\ fetch.pc = "meta"
    /\ \E o \in MetaWriteOutcomes :
        LET path == fetch.destination_path
        IN fetch' =
            CASE o = "ok" ->
                    fetch_end([fetch EXCEPT !.sidecar[path] = sidecar_metadata(fetch)],
                              Returned(Outcome(TRUE, "", FALSE)), "none")
              [] o = "open raises" ->
                    fetch_end(fetch, download_file_except("OSError"), "meta")
              [] OTHER ->
                    fetch_end([fetch EXCEPT !.sidecar[path] = MetaOther("badjson")],
                              download_file_except("OSError"), "meta")
    /\ UNCHANGED <<syncVars, det, lst, walk, san>>

\* Between the metadata read and the sidecar write, so also while the
\* content is streamed, the remote file is edited: its size or its
\* modifiedTime, or both, become other values.
FetchRemoteChange ==
    /\ fetch.pc \in {"open", "stream", "meta"} /\ fetch.changes < MaxChanges
    /\ \E r \in DetRemotes :
        /\ r.has_size = fetch.remote.has_size /\ r # fetch.remote
        /\ fetch' = [fetch EXCEPT !.remote = r, !.changes = @ + 1]
    /\ UNCHANGED <<syncVars, det, lst, walk, san>>

FetchNext ==
    \/ FetchMakedirs \/ FetchMetadata \/ FetchOpen \/ FetchChunk \/ FetchMeta
    \/ FetchRemoteChange

SpecFetch == FetchInit /\ [][FetchNext]_vars

FetchEnded == fetch.pc \in {"returned", "raised"}

\* C14 (sidecar written only on full success), as claimed: a sidecar differs
\* from what it was before the call only if the content stream of the call
\* completed without error, and a call that returns an unsuccessful result has
\* left every sidecar as it was.
SidecarOnlyOnSuccess ==
    fetch.pc # "off" =>
        /\ fetch.sidecar # fetch.sidecar0 => fetch.streamed
        /\ (FetchEnded /\ ~fetch.result.success) => fetch.sidecar = fetch.sidecar0

\* C16 (the fetch never throws past its boundary): a call of download_file
\* that has ended has returned a tuple, never raised; if a step failed the
\* tuple says success = False with a message; and a file that was opened has
\* been closed, in this and in every earlier execution of the body.
FetchNeverThrows ==
    FetchEnded =>
        /\ fetch.pc = "returned" /\ fetch.exc = "none"
        /\ fetch.failed_step # "none" =>
                ~fetch.result.success /\ fetch.result.msg # ""
        /\ fetch.file # "open" /\ fetch.closed

\* The sidecar write failed after the content was streamed into the opened
\* file: the call has returned a failure and the file is closed.
FetchNeverThrowsWitness ==
    /\ fetch.pc = "returned" /\ fetch.failed_step = "meta"
    /\ fetch.streamed /\ fetch.file = "closed"
    /\ ~fetch.result.success

\* C21 (the sidecar records the start-of-fetch fingerprint): after a call of
\* download_file that returned success, the sidecar beside the file written
\* holds the file id with the size and modifiedTime that the metadata read at
\* the start of the call answered; and if the remote's size or modifiedTime is
\* by then another, the next freshness check of the entry returns not-current.
SidecarHoldsStartFingerprint ==
    (fetch.pc = "returned" /\ fetch.result.success) =>
        /\ fetch.sidecar[fetch.destination_path]
                = MetaRecord(FetchId, size_of(fetch.file_metadata),
                             fetch.file_metadata.modifiedTime)
        /\ ( \/ size_of(fetch.remote) # size_of(fetch.file_metadata)
             \/ fetch.remote.modifiedTime # fetch.file_metadata.modifiedTime )
           => LET r == call_file_already_exists(
                            fetch.artifact[FetchDestination].kind # "absent",
                            fetch.sidecar[FetchDestination], FetchId, fetch.remote,
                            Steady("ok"), 1)
              IN r.decision = "return" /\ ~r.value

\* A directly downloaded file was edited while it was streamed, in its
\* modifiedTime alone, and the call has returned success.
SidecarStartWitness ==
    /\ fetch.pc = "returned" /\ fetch.result.success /\ fetch.changes = 1
    /\ fetch.mime_type = "text/plain"
    /\ fetch.remote.size = fetch.file_metadata.size
    /\ fetch.remote.modifiedTime # fetch.file_metadata.modifiedTime

\* --------------------------------------------------------------- SpecName
MaxPrefix == 2      \* a name starts with up to MaxPrefix characters of NameChars
MaxPad == 1         \* and goes on with up to MaxLength + MaxPad characters x

NameChars == {"a", "/", ":"}

Pad(n) == [i \in 1..n |-> "x"]

\* Short names, and names whose length is around the cap.
Names ==
    { prefix \o Pad(n) :
        prefix \in UNION {[1..k -> NameChars] : k \in 0..MaxPrefix},
        n \in {0} \cup ((MaxLength - MaxPrefix)..(MaxLength + MaxPad)) }

NameInit ==
    /\ SyncIdle /\ det = DetOff /\ lst = Off /\ walk = Off /\ fetch = Off
    /\ \E filename \in Names :
        san = [pc |-> "call", filename |-> filename, result |-> <<>>]

\* sanitize_filename(filename) with the default max_length.
NameCall ==
    /\ san.pc = "call"
    /\ san' = [san EXCEPT !.pc = "done",
                          !.result = sanitize_filename(san.filename, MaxLength)]
    /\ UNCHANGED <<syncVars, det, lst, walk, fetch>>

NameNext == NameCall

SpecName == NameInit /\ [][NameNext]_vars

NoForbidden(name) == \A i \in DOMAIN name : name[i] \notin Forbidden

\* C17 (path sanitization), as claimed: the result of sanitize_filename holds
\* no forbidden character, and for a name longer than the cap of 255 its
\* length is the cap.
SanitizeExactCap ==
    san.pc = "done" =>
        /\ NoForbidden(san.result)
        /\ Len(san.filename) > MaxLength => Len(san.result) = MaxLength

\* C17, amended: the result of sanitize_filename holds no forbidden character
\* and is never longer than the cap of 255; its length is the cap for every
\* name with more than 255 characters that are not forbidden.
SanitizeWithinCap ==
    san.pc = "done" =>
        /\ NoForbidden(san.result)
        /\ Len(san.result) <= MaxLength
        /\ Cardinality({i \in DOMAIN san.filename : san.filename[i] \notin Forbidden})
                > MaxLength
           => Len(san.result) = MaxLength

\* A name of a forbidden character and 256 others has been cut to 255.
SanitizeWitness ==
    /\ san.pc = "done" /\ Len(san.filename) = MaxLength + 2
    /\ san.filename[1] = "/" /\ san.filename[2] = "x"
    /\ Len(san.result) = MaxLength

\* ------------------------------------------------------------------ claims
NoFault == faults = 0 /\ crashes = 0

IsRunSummary(i) == log[i].ev = "run"
\* The summary of folder 101, the first folder of a run: the counters hold
\* that folder's counts alone.
IsFirstRoot(i) == log[i].ev = "root" /\ log[i].root = 1
ChangesBefore(i) == {k \in 1..(i - 1) : log[k].ev = "change"}

\* C1 (idempotence), as claimed: after a run that fully succeeded, the next
\* run against the unchanged remote tree submits no fetch, downloads nothing
\* and skips every entry.
SecondRunIdempotent ==
    NoFault =>
        \A i \in DOMAIN log : \A j \in DOMAIN log :
            ( /\ i < j /\ IsRunSummary(i) /\ IsRunSummary(j)
              /\ \A k \in (i + 1)..(j - 1) : log[k].ev = "root"
              /\ log[i].counters.failed = 0
              /\ log[i].processed = FileIds )
            => /\ log[j].counters.total_files = 0
               /\ log[j].counters.downloaded = 0
               /\ log[j].counters.skipped = Cardinality(FileIds)

\* Folder 101 holds two directly downloadable files with two destination paths.
TwoPlainFiles ==
    /\ tree[1].mimeType = "text/plain" /\ tree[2].mimeType = "text/plain"
    /\ sanitize_filename(tree[1].name, MaxLength)
            # sanitize_filename(tree[2].name, MaxLength)

\* C2 (selective re-fetch): with folder 101 holding two directly downloadable
\* files and no error in any run, the first run downloads both, a second run
\* with the remote unchanged downloads neither and skips both, and a third run
\* after one size change, made after the second run to one of the two files,
\* downloads that file alone and skips the other.
SelectiveRefetch ==
    (TwoPlainFiles /\ NoFault) =>
        \A i \in DOMAIN log :
            IsFirstRoot(i) =>
                /\ log[i].run = 1 =>
                        /\ log[i].counters.downloaded = 2
                        /\ log[i].counters.skipped = 0
                        /\ log[i].counters.failed = 0
                /\ (log[i].run = 2 /\ ChangesBefore(i) = {}) =>
                        /\ log[i].counters.downloaded = 0
                        /\ log[i].counters.skipped = 2
                /\ \A k \in ChangesBefore(i) :
                        ( /\ log[i].run = 3 /\ ChangesBefore(i) = {k}
                          /\ log[k].run = 2 /\ log[k].file \in {1, 2}
                          /\ log[k].field = "size" )
                        => /\ log[i].counters.downloaded = 1
                           /\ log[i].counters.skipped = 1
                           /\ log[i].fetched = {log[k].file}

\* The third run of the scenario has ended its folder 101: one file was edited
\* after the second run, and one file was fetched.
SelectiveRefetchWitness ==
    /\ TwoPlainFiles /\ NoFault
    /\ \E i \in DOMAIN log : \E k \in ChangesBefore(i) :
        /\ IsFirstRoot(i) /\ log[i].run = 3 /\ ChangesBefore(i) = {k}
        /\ log[k].run = 2 /\ log[k].file = 1 /\ log[k].field = "size"
        /\ log[i].counters.downloaded = 1

\* C5 (retry exhaustion), as claimed: a fetch reported failed on a transient
\* error has been attempted as often as the attempt ceiling.
FetchRetriedToCeiling ==
    \A t \in DOMAIN tasks :
        (tasks[t].st = "done" /\ ~tasks[t].result.success /\ tasks[t].result.transient)
        => tasks[t].attempts = StopAfterAttempt

Recorded == {t \in DOMAIN tasks : tasks[t].recorded}

\* C6 (accounting): while and after the futures of a folder are collected,
\* the folder's counters add up to the number of outcomes recorded so far, so
\* to the number of tasks after the last one; and over the run every fetch
\* task is counted downloaded or failed once, or is still to be recorded.
AccountingExact ==
    pc = "collect" =>
        /\ sub_counters.downloaded + sub_counters.skipped + sub_counters.failed
                = Cardinality(Recorded)
        /\ counters.downloaded + counters.failed
                + Cardinality(DOMAIN tasks \ Recorded) = counters.total_files

\* Two tasks on one worker, one downloaded and one failed, both recorded.
AccountingWitness ==
    /\ pc = "collect" /\ num_workers = 1 /\ Len(tasks) = 2
    /\ Recorded = DOMAIN tasks
    /\ sub_counters.downloaded = 1 /\ sub_counters.failed = 1

\* C7 (error isolation), as claimed: a run that reaches its summary has
\* processed every entry of every configured folder.
EveryEntryProcessed ==
    \A i \in DOMAIN log : IsRunSummary(i) => log[i].processed = FileIds

Skippable == {"Unsupported MIME type", "Quota or rate limit exceeded"}

\* C8 (skippable outcomes), as claimed: the recorded fetches that ended on an
\* unsupported kind or on a quota response are counted skipped, and only the
\* other unsuccessful ones failed.
SkippableCountedSkipped ==
    pc = "collect" =>
        /\ sub_counters.skipped =
                Cardinality({t \in Recorded : tasks[t].result.msg \in Skippable})
        /\ sub_counters.failed =
                Cardinality({t \in Recorded : /\ ~tasks[t].result.success
                                              /\ tasks[t].result.msg \notin Skippable})

\* C9 (single writer), as claimed: in a run no path is opened for writing by
\* two fetch tasks.
SingleWriterPerPath ==
    \A w1 \in written : \A w2 \in written : w1[1] = w2[1] => w1 = w2

\* The destination path the filter loop checks for file f.
DestinationPath(f) ==
    CHOOSE p \in PathsOf(tree) :
        \E r \in DOMAIN shared_folder_data :
            \E item \in Range(get_all_files(tree, {}, shared_folder_data[r].id, <<>>)) :
                item.id = f /\ p = destination_of(shared_folder_data[r], item)

\* C10 (crash safety), as claimed: after a kill, the disk makes the freshness
\* check of every entry whose fetch was cut short while writing answer
\* not-current.
CrashLeavesNotCurrent ==
    pc = "idle" =>
        \A f \in interrupted :
            LET r == call_file_already_exists(
                        artifact[DestinationPath(f)].kind # "absent",
                        sidecar[DestinationPath(f)], f, remote[f], Steady("ok"), 1)
            IN ~(r.decision = "return" /\ r.value)

Queued == {t \in DOMAIN tasks : tasks[t].st = "queued"}

\* C11 (bounded concurrency): in every state of a run at most num_workers
\* calls of download_file are executing, and while the main thread enumerates
\* a folder's tree or partitions its entries no worker executes anything: both
\* are done by the main thread alone.
BoundedConcurrency ==
    /\ Cardinality(Streaming) <= num_workers
    /\ pc \in {"begin", "filter"} => Streaming = {}

\* A pool of one worker is executing one fetch while another fetch of the
\* same folder waits in the queue.
BoundedConcurrencyWitness ==
    /\ pc = "collect" /\ num_workers = 1
    /\ Cardinality(Streaming) = 1 /\ Queued # {}

\* C12 (barrier per root): every folder summary and every run summary is
\* emitted with each fetch task submitted so far in the run completed and
\* recorded (downloaded + failed = total_files), and outside the collection of
\* a folder's futures, so also when the next folder is enumerated, no fetch
\* task is queued or executing.
BarrierPerRoot ==
    /\ \A i \in DOMAIN log :
            log[i].ev \in {"root", "run"} =>
                log[i].counters.downloaded + log[i].counters.failed
                    = log[i].counters.total_files
    /\ pc # "collect" => Streaming \cup Queued = {}

\* The summary of folder 101 was emitted after two fetches on two workers,
\* one downloaded and one failed.
BarrierPerRootWitness ==
    /\ num_workers = 2
    /\ \E i \in DOMAIN log :
            /\ IsFirstRoot(i) /\ Cardinality(log[i].fetched) = 2
            /\ log[i].counters.downloaded = 1 /\ log[i].counters.failed = 1

\* C18 (the retry policy covers the freshness check's metadata read), as
\* claimed: a call of file_already_exists that reached its metadata read and
\* got a rate-limit response, an HttpError, is not answered not-current at
\* once: the read is tried again, so the call returns on such a read no
\* earlier than in its last attempt.
FreshnessReadRetried ==
    ( /\ det.pc = "returned" /\ reads_remote(det.exists, det.sidecar0)
      /\ det.read = "HttpError" )
    => det.attempt_number = StopAfterAttempt

\* C22 (a sidecar implies complete content), as claimed: in runs that no kill
\* interrupts, at every point where no fetch is writing a file's path, a
\* sidecar there that the freshness check accepts as current for the file
\* (it matches the fingerprint the file has on the remote now) lies beside an
\* artifact that holds the complete content of that version of the file, so
\* never beside a truncated one.
SidecarImpliesComplete ==
    crashes = 0 =>
        \A f \in FileIds :
            LET p == DestinationPath(f)
                r == call_file_already_exists(
                        artifact[p].kind # "absent", sidecar[p], f, remote[f],
                        Steady("ok"), 1)
            IN ( /\ r.decision = "return" /\ r.value
                 /\ \A t \in Streaming : tasks[t].wpath # p )
               => artifact[p] = FileContent("complete", f, size_of(remote[f]),
                                           remote[f].modifiedTime)

====
